---- MODULE Spec2Model ----
(***************************************************************************)
(* A model of the employee-handbook question-answering pipeline:           *)
(*   config.py              Config (process-wide class attributes)         *)
(*   document_processor.py  DocumentProcessor (chunking, index build/load) *)
(*   qa_engine.py           QAEngine (retrieval, generation, cache)        *)
(*   app.py                 the Streamlit script (one rerun per action)    *)
(*                                                                         *)
(* Text is a sequence of one-character strings, so that the regular        *)
(* expressions, strip(), split() and slicing of the code are computed on   *)
(* characters, as the code computes them.                                  *)
(***************************************************************************)
EXTENDS Integers, Sequences, FiniteSets, TLC

VARIABLES
  config,      \* Config: the class attributes every Config() instance reads through
  engine,      \* the QAEngine instance of the library-level specifications
  processor,   \* the DocumentProcessor instance (its splitter is built in __init__)
  calls,       \* number of answer_question / split_documents calls made so far
  last,        \* what the last answer_question call read, did and returned
  clean,       \* no mode change, cache clear or cache disable since the last call
  gens,        \* per question: generator invocations on this engine with caching on
  docs,        \* chunking: the pages handed to split_documents
  chunks,      \* chunking: what the last split_documents call returned
  fmtIn,       \* format_sources: the retrieved chunks handed in
  fmtOut,      \* format_sources: the sources returned
  ctx,         \* generate_simple_answer: the context handed in
  simple,      \* generate_simple_answer: the answer returned
  disk,        \* the persisted index directory and handbook.pdf
  sess         \* st.session_state of each browser session

cfgVars   == <<config>>
engVars   == <<engine, calls, last, clean, gens>>
procVars  == <<processor, docs, chunks>>
fmtVars   == <<fmtIn, fmtOut>>
genVars   == <<ctx, simple>>
appVars   == <<disk, sess>>
vars      == <<config, engine, processor, calls, last, clean, gens,
               docs, chunks, fmtIn, fmtOut, ctx, simple, disk, sess>>

(***************************************************************************)
(* Characters and the string primitives the code uses.                     *)
(***************************************************************************)
Digits == {"0", "1", "2", "3", "4", "5", "6", "7", "8", "9"}
Upper  == {"A", "B", "C", "D", "E", "F", "G", "H", "I", "J", "K", "L", "M",
           "N", "O", "P", "Q", "R", "S", "T", "U", "V", "W", "X", "Y", "Z"}
Space  == {" ", "\t", "\n", "\r", "\f"}
NL     == "\n"

IsDigit(c)   == c \in Digits
IsUpper(c)   == c \in Upper
IsSpace(c)   == c \in Space

MinOf(S) == CHOOSE x \in S : \A y \in S : x <= y
MaxOf(S) == CHOOSE x \in S : \A y \in S : x >= y
Min2(a, b) == IF a <= b THEN a ELSE b

\* str.strip(): leading and trailing whitespace removed
Strip(s) ==
  LET keep == {i \in 1..Len(s) : ~IsSpace(s[i])}
  IN  IF keep = {} THEN <<>> ELSE SubSeq(s, MinOf(keep), MaxOf(keep))

\* sep.join(parts)
RECURSIVE Join(_, _)
Join(sep, parts) ==
  IF parts = <<>> THEN <<>>
  ELSE IF Len(parts) = 1 THEN parts[1]
  ELSE parts[1] \o sep \o Join(sep, Tail(parts))

\* s.startswith(prefix)
StartsWith(s, prefix) ==
  Len(s) >= Len(prefix) /\ SubSeq(s, 1, Len(prefix)) = prefix

\* the first index >= p whose character is outside C (Len(s)+1 when none is)
SkipIn(s, p, C) ==
  LET stop == {j \in p..Len(s) : s[j] \notin C}
  IN  IF stop = {} THEN Len(s) + 1 ELSE MinOf(stop)

\* the first index >= p whose character is in C (Len(s)+1 when none is)
SkipTo(s, p, C) ==
  LET stop == {j \in p..Len(s) : s[j] \in C}
  IN  IF stop = {} THEN Len(s) + 1 ELSE MinOf(stop)

\* s.split('\n')
RECURSIVE SplitLines(_)
SplitLines(s) ==
  LET e == SkipTo(s, 1, {NL})
  IN  IF e > Len(s) THEN <<s>>
      ELSE <<SubSeq(s, 1, e - 1)>> \o SplitLines(SubSeq(s, e + 1, Len(s)))

(***************************************************************************)
(* config.py: Config. Every attribute is a class attribute; Config()       *)
(* instances hold none of their own, so self.config.X reads the class      *)
(* attribute as it is at the time of the read.                             *)
(***************************************************************************)
CHUNK_SIZE    == 1500
CHUNK_OVERLAP == 100
TOP_K         == 3

Modes == {"free", "paid"}

\* the class body: LLM_MODEL and LLM_TEMPERATURE are computed once from the
\* MODE of the environment (temperature in tenths)
ConfigClass(mode, key) ==
  [MODE            |-> mode,
   OPENAI_API_KEY  |-> key,
   CHUNK_SIZE      |-> CHUNK_SIZE,
   CHUNK_OVERLAP   |-> CHUNK_OVERLAP,
   TOP_K           |-> TOP_K,
   ENABLE_CACHE    |-> TRUE,
   LLM_MODEL       |-> IF mode = "paid" THEN "gpt-4o-mini" ELSE "None",
   LLM_TEMPERATURE |-> IF mode = "paid" THEN 3 ELSE 5]

(***************************************************************************)
(* document_processor.py: DocumentProcessor                                *)
(***************************************************************************)
SourceName == <<"h", "b">>            \* os.path.basename(pdf_path)

\* A match of  \d+\.\s+[A-Z][^\n]+  starting at p: the index after it, 0 if none.
\* Each greedy run is followed by a character outside its class, so no
\* shorter run can succeed where the longest one fails.
HeadingEnd(s, p) ==
  LET d == SkipIn(s, p, Digits)
  IN  IF d = p \/ d > Len(s) \/ s[d] # "." THEN 0
      ELSE LET w == SkipIn(s, d + 1, Space)
           IN  IF w = d + 1 \/ w > Len(s) \/ ~IsUpper(s[w]) THEN 0
               ELSE LET e == SkipTo(s, w + 1, {NL})
                    IN  IF e = w + 1 THEN 0 ELSE e

\* re.match(r'\d+\.\s+[A-Z]', part): the pattern at the start of part
IsHeadingPart(part) ==
  LET d == SkipIn(part, 1, Digits)
  IN  /\ d > 1 /\ d <= Len(part) /\ part[d] = "."
      /\ LET w == SkipIn(part, d + 1, Space)
         IN  w > d + 1 /\ w <= Len(part) /\ IsUpper(part[w])

\* re.split(r'(\d+\.\s+[A-Z][^\n]+)', text): the text before the first match,
\* then for each match (leftmost first) the match and the text up to the next.
RECURSIVE ReSplitFrom(_, _, _)
ReSplitFrom(s, start, p) ==
  IF p > Len(s) THEN <<SubSeq(s, start, Len(s))>>
  ELSE LET e == HeadingEnd(s, p)
       IN  IF e = 0 THEN ReSplitFrom(s, start, p + 1)
           ELSE <<SubSeq(s, start, p - 1), SubSeq(s, p, e - 1)>>
                  \o ReSplitFrom(s, e, e)

ReSplit(text) == ReSplitFrom(text, 1, 1)

\* current_section = None: lines 89 and 102 test only its truthiness, and a
\* section that was set is a stripped match, never empty.
NoSection == <<>>

SectionChunk(section, content) ==
  LET content_text == Join(<<NL>>, content)
  IN  [section |-> section, content |-> content_text,
       char_count |-> Len(content_text)]

\* the loop of split_by_sections over the parts, then the trailing flush
RECURSIVE SectionLoop(_, _, _, _)
SectionLoop(parts, out, current_section, current_content) ==
  IF parts = <<>>
  THEN IF current_section # NoSection
       THEN Append(out, SectionChunk(current_section, current_content))
       ELSE out
  ELSE LET part == Head(parts)
       IN  IF IsHeadingPart(part)
           THEN SectionLoop(Tail(parts),
                   IF current_section # NoSection
                   THEN Append(out, SectionChunk(current_section, current_content))
                   ELSE out,
                   Strip(part), <<part>>)
           ELSE IF Strip(part) # <<>>
           THEN SectionLoop(Tail(parts), out, current_section,
                            Append(current_content, part))
           ELSE SectionLoop(Tail(parts), out, current_section, current_content)

split_by_sections(text) == SectionLoop(ReSplit(text), <<>>, NoSection, <<>>)

\* RecursiveCharacterTextSplitter.split_text of the splitter built in __init__
\* (langchain, not part of the repository). Modelled by its contract: blank
\* text gives no chunk, text within chunk_size gives one stripped chunk, longer
\* text gives windows of chunk_size characters that overlap by chunk_overlap.
RECURSIVE Windows(_, _, _)
Windows(s, size, overlap) ==
  IF Len(s) <= size THEN <<s>>
  ELSE <<SubSeq(s, 1, size)>>
         \o Windows(SubSeq(s, size - overlap + 1, Len(s)), size, overlap)

split_text(splitter, text) ==
  LET t == Strip(text)
  IN  IF t = <<>> THEN <<>>
      ELSE Windows(t, splitter.chunk_size, splitter.chunk_overlap)

\* split_documents, lines 121-135: one chunk per section, chunk_id = position
SectionStrategy(documents, section_chunks) ==
  [i \in 1..Len(section_chunks) |->
     [content  |-> section_chunks[i].content,
      metadata |-> [section  |-> section_chunks[i].section,
                    page     |-> Min2(i, Len(documents)),
                    chunk_id |-> i - 1,
                    source   |-> documents[1].metadata.source]]]

\* split_documents, lines 141-150: the chunks of one page, enumerated from 0
PageChunks(splitter, doc) ==
  LET text_chunks == split_text(splitter, doc.content)
  IN  [i \in 1..Len(text_chunks) |->
         [content  |-> text_chunks[i],
          metadata |-> [page     |-> doc.metadata.page,
                        source   |-> doc.metadata.source,
                        chunk_id |-> i - 1]]]

RECURSIVE FallbackStrategy(_, _)
FallbackStrategy(splitter, documents) ==
  IF documents = <<>> THEN <<>>
  ELSE PageChunks(splitter, Head(documents))
         \o FallbackStrategy(splitter, Tail(documents))

FullText(documents) ==
  Join(<<NL>>, [i \in 1..Len(documents) |-> documents[i].content])

split_documents(splitter, documents, use_section_split) ==
  LET section_chunks == IF use_section_split
                        THEN split_by_sections(FullText(documents))
                        ELSE <<>>
  IN  IF Len(section_chunks) > 0
      THEN [strategy |-> "section",
            chunks   |-> SectionStrategy(documents, section_chunks)]
      ELSE [strategy |-> "generic",
            chunks   |-> FallbackStrategy(splitter, documents)]

\* DocumentProcessor.__init__, lines 43-48: the splitter is built from the
\* configuration of that moment and kept
NoProcessor == [built |-> FALSE, chunk_size |-> 0, chunk_overlap |-> 0]

NewSplitter(cfg) ==
  [built |-> TRUE, chunk_size |-> cfg.CHUNK_SIZE, chunk_overlap |-> cfg.CHUNK_OVERLAP]

(***************************************************************************)
(* Inputs of the chunking specification: pages made of a few kinds of      *)
(* lines.                                                                  *)
(***************************************************************************)
MaxPages   == 2
MaxLines   == 2
SmallChunk == 4
SmallOverlap == 1

LineKinds ==
  { <<"1", ".", " ", "A", "b">>,            \* a heading
    <<"1", "2", ".", " ", "C", "d">>,       \* a heading, two-digit ordinal
    <<"x">>,                                \* body text
    <<"x", " ", "3", ".", " ", "E", "f">>,  \* the pattern inside a line
    <<"4", ".", " ", "g">>,                 \* ordinal, title not capitalized
    <<"5", ".", " ", "A">>,                 \* a heading, one-letter title
    <<>> }                                  \* an empty line

SeqsUpTo(S, n) == UNION {[1..k -> S] : k \in 1..n}

\* extract_text() of one page; load_pdf keeps a page only if its text is
\* not empty (line 60)
PageTexts == {Join(<<NL>>, ls) : ls \in SeqsUpTo(LineKinds, MaxLines)} \ {<<>>}

Documents ==
  UNION {{[i \in 1..n |-> [content  |-> t[i],
                           metadata |-> [page |-> i, source |-> SourceName]]]
            : t \in [1..n -> PageTexts]} : n \in 0..MaxPages}

SplitterConfigs ==
  {c \in [CHUNK_SIZE : {CHUNK_SIZE, SmallChunk},
          CHUNK_OVERLAP : {CHUNK_OVERLAP, SmallOverlap}] :
     c.CHUNK_OVERLAP < c.CHUNK_SIZE}

\* no split_documents call made yet
NoChunks == [called |-> FALSE, use_section_split |-> FALSE,
             strategy |-> "none", chunks |-> <<>>,
             cfg |-> [CHUNK_SIZE |-> 0, CHUNK_OVERLAP |-> 0],
             used |-> [CHUNK_SIZE |-> 0, CHUNK_OVERLAP |-> 0]]

(***************************************************************************)
(* The handbook and its vector index.                                      *)
(***************************************************************************)
HandbookPages ==
  << [content  |-> <<"1", ".", " ", "A", "b", NL, "x", NL,
                     "2", ".", " ", "C", "d", NL, "y">>,
      metadata |-> [page |-> 1, source |-> SourceName]],
     [content  |-> <<"3", ".", " ", "E", "f", NL, "z">>,
      metadata |-> [page |-> 2, source |-> SourceName]] >>

\* process_pdf, lines 210-216: the chunks the index is built from
HandbookChunks ==
  split_documents(NewSplitter(ConfigClass("free", "")), HandbookPages, TRUE).chunks

Questions == {"q1", "q2"}

\* FAISS.similarity_search_with_score (langchain, not part of the repository):
\* the k nearest chunks of the index, nearest first, with their distances (in
\* hundredths). The embedding is deterministic, so the order depends on the
\* question alone.
Nearest(question) ==
  IF question = "q1" THEN <<1, 2, 3>> ELSE <<3, 1, 2>>

similarity_search_with_score(vector_store, question, k) ==
  LET order == Nearest(question)
      n     == Min2(k, Len(HandbookChunks))
  IN  [i \in 1..n |-> [doc |-> HandbookChunks[order[i]], score |-> 10 * i]]

(***************************************************************************)
(* qa_engine.py: QAEngine                                                  *)
(***************************************************************************)
PreviewLen == 200
MaxBullets == 15

NoLLM == [created |-> FALSE, model |-> "None", temperature |-> 0]

\* QAEngine.__init__
QAEngine(vector_store) ==
  [built |-> TRUE, vector_store |-> vector_store, cache |-> <<>>, llm |-> NoLLM]

NoEngine ==
  [built |-> FALSE, vector_store |-> "None", cache |-> <<>>, llm |-> NoLLM]

\* dict.get(key, default)
Get(d, key, default) == IF key \in DOMAIN d THEN d[key] ELSE default

\* search_relevant_chunks without its try/except: the exception of the index
\* query leaves the function
SearchPropagating(eng, cfg, question, query_raises) ==
  IF query_raises \/ eng.vector_store = "None"
  THEN [raised |-> TRUE, chunks |-> <<>>]
  ELSE [raised |-> FALSE,
        chunks |-> [i \in 1..Min2(cfg.TOP_K, Len(HandbookChunks)) |->
                      [content  |-> HandbookChunks[Nearest(question)[i]].content,
                       metadata |-> HandbookChunks[Nearest(question)[i]].metadata,
                       score    |-> 10 * i]]]

\* lines 56-62: the results as chunks
AsChunks(results) ==
  [i \in 1..Len(results) |->
     [content  |-> results[i].doc.content,
      metadata |-> results[i].doc.metadata,
      score    |-> results[i].score]]

\* search_relevant_chunks: any exception of the index query (a store that is
\* None included) is caught and gives []; raised tells whether an exception
\* leaves the function
search_relevant_chunks(eng, cfg, question, query_raises) ==
  IF query_raises \/ eng.vector_store = "None"
  THEN [raised |-> FALSE, chunks |-> <<>>]
  ELSE [raised |-> FALSE,
        chunks |-> AsChunks(similarity_search_with_score(eng.vector_store,
                                                         question, cfg.TOP_K))]

\* format_sources: one source per chunk, the content cut at 200 characters
Ellipsis == <<".", ".", ".">>

\* the comparison of line 161 taken as >=
PreviewCutAtLimit(content) ==
  IF Len(content) >= PreviewLen
  THEN SubSeq(content, 1, PreviewLen) \o Ellipsis
  ELSE content

Preview(content) ==
  IF Len(content) > PreviewLen
  THEN SubSeq(content, 1, PreviewLen) \o Ellipsis
  ELSE content

format_sources(cs) ==
  [i \in 1..Len(cs) |->
     [page    |-> Get(cs[i].metadata, "page", "?"),
      section |-> Get(cs[i].metadata, "section", <<>>),
      content |-> Preview(cs[i].content),
      score   |-> Get(cs[i], "score", 0)]]

\* str(n) of a non-negative integer
DigitSeq == <<"0", "1", "2", "3", "4", "5", "6", "7", "8", "9">>

RECURSIVE ToText(_)
ToText(n) ==
  IF n < 10 THEN <<DigitSeq[n + 1]>>
  ELSE ToText(n \div 10) \o <<DigitSeq[(n % 10) + 1]>>

\* f"{metadata.get('page', '?')}"
PageText(metadata) ==
  IF "page" \in DOMAIN metadata THEN ToText(metadata.page) ELSE <<"?">>

SourceTag == <<"[", "S", "o", "u", "r", "c", "e", ":">>
PageWord  == <<"P", "a", "g", "e", " ">>

\* answer_question, lines 132-135: the context handed to the generator
ContextOf(cs) ==
  Join(<<NL, NL>>,
       [i \in 1..Len(cs) |->
          SourceTag \o <<" ">> \o PageWord
            \o PageText(cs[i].metadata) \o <<"]", NL>>
            \o cs[i].content])

\* re.search(r'Page (\d+)', line): group 1 of the leftmost match, <<>> if none
PageOfMarker(line) ==
  LET hits == {p \in 1..Len(line) :
                 /\ p + Len(PageWord) <= Len(line)
                 /\ SubSeq(line, p, p + Len(PageWord) - 1) = PageWord
                 /\ IsDigit(line[p + Len(PageWord)])}
  IN  IF hits = {} THEN <<>>
      ELSE LET b == MinOf(hits) + Len(PageWord)
           IN  SubSeq(line, b, SkipIn(line, b, Digits) - 1)

\* current_page = None: line 107 tests only its truthiness, and a page that
\* was set is a non-empty run of digits.
NoPage == <<>>

Bullet == <<"*", " ">>     \* the bullet sign and a space (the sign written as a star)

RECURSIVE SimpleLoop(_, _, _)
SimpleLoop(lines, relevant_lines, current_page) ==
  IF lines = <<>> THEN [relevant_lines |-> relevant_lines,
                        current_page   |-> current_page]
  ELSE LET line == Strip(Head(lines))
       IN  IF StartsWith(line, SourceTag)
           THEN SimpleLoop(Tail(lines), relevant_lines,
                           IF PageOfMarker(line) # <<>> THEN PageOfMarker(line)
                           ELSE current_page)
           ELSE IF line # <<>> /\ current_page # NoPage
           THEN SimpleLoop(Tail(lines), Append(relevant_lines, Bullet \o line),
                           current_page)
           ELSE SimpleLoop(Tail(lines), relevant_lines, current_page)

\* An answer is a piece of text in the code. Here it is a record that keeps
\* the parts the text is formatted from: kind tells the template.
NotFound ==
  [kind |-> "not_found", page |-> <<>>, lines |-> <<>>, text |-> ""]

\* the answer without the cut to 15 bullet lines
SimpleAnswerUncapped(r) ==
  IF r.relevant_lines # <<>>
  THEN [kind  |-> "simple", page |-> r.current_page,
        lines |-> r.relevant_lines, text |-> ""]
  ELSE NotFound

\* lines 110-115: the header names the page of the last marker seen, the
\* body is the first 15 bullet lines
SimpleAnswer(r) ==
  IF r.relevant_lines # <<>>
  THEN [kind  |-> "simple", page |-> r.current_page,
        lines |-> SubSeq(r.relevant_lines, 1,
                         Min2(MaxBullets, Len(r.relevant_lines))),
        text  |-> ""]
  ELSE NotFound

generate_simple_answer(question, context) ==
  SimpleAnswer(SimpleLoop(SplitLines(context), <<>>, NoPage))

\* what the provider may do with one llm.invoke(prompt)
Replies ==
  { [raises |-> TRUE,  text |-> "provider_error"],
    [raises |-> FALSE, text |-> "r1"],
    [raises |-> FALSE, text |-> "r2"] }

\* ChatOpenAI(model=..., temperature=..., openai_api_key=...)
ChatOpenAI(cfg) ==
  [created |-> TRUE, model |-> cfg.LLM_MODEL, temperature |-> cfg.LLM_TEMPERATURE]

\* _get_llm: the mode is read on each call, the client is built once.
\* llm is what is returned, kept is self._llm afterwards.
get_llm(eng, cfg) ==
  IF cfg.MODE = "paid"
  THEN IF cfg.OPENAI_API_KEY = ""
       THEN [raised |-> TRUE, llm |-> NoLLM, kept |-> eng.llm]
       ELSE IF ~eng.llm.created
       THEN [raised |-> FALSE, llm |-> ChatOpenAI(cfg), kept |-> ChatOpenAI(cfg)]
       ELSE [raised |-> FALSE, llm |-> eng.llm, kept |-> eng.llm]
  ELSE [raised |-> FALSE, llm |-> NoLLM, kept |-> eng.llm]

\* generate_answer_openai after _get_llm returned g: every exception leaves
\* as LLMAPIError (raised), text is the reply or what went wrong
Invoke(g, reply) ==
  IF g.raised
  THEN [raised |-> TRUE, text |-> "no_api_key", kept |-> g.kept,
        invoked |-> FALSE, client |-> NoLLM]
  ELSE IF ~g.llm.created
  THEN [raised |-> TRUE, text |-> "not_configured", kept |-> g.kept,
        invoked |-> FALSE, client |-> NoLLM]
  ELSE [raised |-> reply.raises, text |-> reply.text, kept |-> g.kept,
        invoked |-> TRUE, client |-> g.llm]

generate_answer_openai(eng, cfg, question, context, reply) ==
  Invoke(get_llm(eng, cfg), reply)

LLMAnswer(text)   == [kind |-> "llm",   page |-> <<>>, lines |-> <<>>, text |-> text]
\* f"Sorry, an error occurred while generating the answer: {e}"
ErrorAnswer(text) == [kind |-> "error", page |-> <<>>, lines |-> <<>>, text |-> text]

\* self.cache[question] = (answer, sources)
CachePut(cache, question, entry) ==
  [x \in DOMAIN cache \cup {question} |->
     IF x = question THEN entry ELSE cache[x]]

\* What one call of answer_question read and did, beside what it returned:
\* cfg is the configuration as it was during the call.
Trace(q, cfg, hit, retrieved, generator, g) ==
  [question    |-> q,
   cfg         |-> [MODE            |-> cfg.MODE,
                    ENABLE_CACHE    |-> cfg.ENABLE_CACHE,
                    TOP_K           |-> cfg.TOP_K,
                    LLM_MODEL       |-> cfg.LLM_MODEL,
                    LLM_TEMPERATURE |-> cfg.LLM_TEMPERATURE],
   cache_hit   |-> hit,
   retrieved   |-> retrieved,
   generator   |-> generator,
   llm_invoked |-> g.invoked,
   llm_failed  |-> g.raised,
   client      |-> g.client]

NoGen == [raised |-> FALSE, text |-> "", kept |-> NoLLM,
          invoked |-> FALSE, client |-> NoLLM]

\* lines 140 and 143-145: an LLMAPIError is caught and becomes the answer text
OpenAIOutcome(g) ==
  [generator |-> "openai", g |-> g, raised |-> FALSE,
   answer |-> IF g.raised THEN ErrorAnswer(g.text) ELSE LLMAnswer(g.text)]

\* the generator chosen by whether the engine holds a client, not by the mode
\* of the call
GenerateByClient(eng, cfg, question, context, reply) ==
  IF eng.llm.created \/ cfg.MODE = "paid"
  THEN OpenAIOutcome(generate_answer_openai(eng, cfg, question, context, reply))
  ELSE [generator |-> "simple", g |-> [NoGen EXCEPT !.kept = eng.llm],
        raised |-> FALSE,
        answer |-> generate_simple_answer(question, context)]

\* the extractive generator whatever the mode
GenerateSimpleOnly(eng, cfg, question, context, reply) ==
  [generator |-> "simple", g |-> [NoGen EXCEPT !.kept = eng.llm],
   raised |-> FALSE,
   answer |-> generate_simple_answer(question, context)]

\* lines 138-145: the generator of the mode read at line 139
Generate(eng, cfg, question, context, reply) ==
  IF cfg.MODE = "paid"
  THEN OpenAIOutcome(generate_answer_openai(eng, cfg, question, context, reply))
  ELSE [generator |-> "simple", g |-> [NoGen EXCEPT !.kept = eng.llm],
        raised |-> FALSE,
        answer |-> generate_simple_answer(question, context)]

\* an empty retrieval whose not-found result is stored in the cache
EmptyRetrievalStored(eng, cfg, question) ==
  [engine |-> [eng EXCEPT !.cache =
                 IF cfg.ENABLE_CACHE
                 THEN CachePut(eng.cache, question,
                               [answer |-> NotFound, sources |-> <<>>])
                 ELSE eng.cache],
   raised |-> FALSE, exc |-> "",
   answer |-> NotFound, sources |-> <<>>,
   trace  |-> Trace(question, cfg, FALSE, 0, "none", NoGen)]

\* lines 127-129: what an empty retrieval gives
EmptyRetrieval(eng, cfg, question) ==
  [engine |-> eng, raised |-> FALSE, exc |-> "",
   answer |-> NotFound, sources |-> <<>>,
   trace  |-> Trace(question, cfg, FALSE, 0, "none", NoGen)]

\* the result is never written to the cache
StoreNothing(eng, cfg, question, entry) == eng.cache

\* lines 150-152
StoreResult(eng, cfg, question, entry) ==
  IF cfg.ENABLE_CACHE THEN CachePut(eng.cache, question, entry) ELSE eng.cache

\* lines 147-154, after the generator gave gen (an exception it let out
\* would leave answer_question before the cache is written)
Finish(eng, cfg, question, relevant_chunks, gen, sources) ==
  IF gen.raised
  THEN [engine |-> [eng EXCEPT !.llm = gen.g.kept],
        raised |-> TRUE, exc |-> "LLMAPIError",
        answer |-> NotFound, sources |-> <<>>,
        trace |-> Trace(question, cfg, FALSE, Len(relevant_chunks),
                        gen.generator, gen.g)]
  ELSE [engine |-> [eng EXCEPT
                      !.llm = gen.g.kept,
                      !.cache = StoreResult(eng, cfg, question,
                                  [answer |-> gen.answer, sources |-> sources])],
        raised |-> FALSE, exc |-> "",
        answer |-> gen.answer, sources |-> sources,
        trace |-> Trace(question, cfg, FALSE, Len(relevant_chunks),
                        gen.generator, gen.g)]

\* lines 127-154, after retrieval gave relevant_chunks
Answer(eng, cfg, question, relevant_chunks, reply) ==
  IF relevant_chunks = <<>>
  THEN EmptyRetrieval(eng, cfg, question)
  ELSE Finish(eng, cfg, question, relevant_chunks,
              Generate(eng, cfg, question, ContextOf(relevant_chunks), reply),
              format_sources(relevant_chunks))

\* line 125: an exception search_relevant_chunks let out would leave
\* answer_question at once
Retrieved(eng, cfg, question, found, reply) ==
  IF found.raised
  THEN [engine |-> eng, raised |-> TRUE, exc |-> "Exception",
        answer |-> NotFound, sources |-> <<>>,
        trace |-> Trace(question, cfg, FALSE, 0, "none", NoGen)]
  ELSE Answer(eng, cfg, question, found.chunks, reply)

\* lines 119-122
CacheHit(eng, cfg, question) ==
  [engine |-> eng, raised |-> FALSE, exc |-> "",
   answer |-> eng.cache[question].answer,
   sources |-> eng.cache[question].sources,
   trace |-> Trace(question, cfg, TRUE, 0, "none", NoGen)]

\* answer_question. query_raises and reply are what the index query and the
\* provider do if the call reaches them.
answer_question(eng, cfg, question, query_raises, reply) ==
  IF cfg.ENABLE_CACHE /\ question \in DOMAIN eng.cache
  THEN CacheHit(eng, cfg, question)
  ELSE Retrieved(eng, cfg, question,
                 search_relevant_chunks(eng, cfg, question, query_raises), reply)

(***************************************************************************)
(* Library-level operations on one engine and one processor.               *)
(***************************************************************************)
MaxCalls == 4
SmallK   == 1

NoLast ==
  [raised |-> FALSE, exc |-> "", answer |-> NotFound, sources |-> <<>>,
   query_raised |-> FALSE,
   trace  |-> Trace("", ConfigClass("free", ""), FALSE, 0, "none", NoGen)]

\* the call returned (or raised) r; query_raised: it queried the index and
\* the query raised
Returned(q, r, query_raises) ==
  /\ engine' = r.engine
  /\ last' = [raised |-> r.raised, exc |-> r.exc, answer |-> r.answer,
              sources |-> r.sources,
              query_raised |-> (query_raises /\ ~r.trace.cache_hit),
              trace |-> r.trace]
  /\ gens' = [gens EXCEPT ![q] =
                IF r.trace.generator # "none" /\ config.ENABLE_CACHE
                THEN @ + 1 ELSE @]

\* one call of engine.answer_question(q), with whatever the index query and
\* the provider do
AnswerQuestion(q) ==
  /\ engine.built
  /\ calls < MaxCalls
  /\ \E query_raises \in BOOLEAN, reply \in Replies :
       Returned(q, answer_question(engine, config, q, query_raises, reply),
                query_raises)
  /\ calls' = calls + 1
  /\ clean' = TRUE
  /\ UNCHANGED <<config, procVars, fmtVars, genVars, appVars>>

\* Config.<field> = value, as app.py line 54 does for MODE
SetConfig(field, value) ==
  /\ config[field] # value
  /\ config' = [config EXCEPT ![field] = value]
  /\ clean' = (clean /\ field # "MODE")
  /\ UNCHANGED <<engine, calls, last, gens, procVars, fmtVars, genVars, appVars>>

\* engine = QAEngine(vector_store): a new engine starts with an empty cache
NewEngine ==
  /\ engine' = QAEngine("handbook")
  /\ gens' = [q \in Questions |-> 0]
  /\ clean' = FALSE
  /\ UNCHANGED <<config, calls, last, procVars, fmtVars, genVars, appVars>>

\* processor = DocumentProcessor(). The splitter's constructor refuses an
\* overlap larger than the chunk size.
NewProcessor ==
  /\ config.CHUNK_OVERLAP < config.CHUNK_SIZE
  /\ processor' = NewSplitter(config)
  /\ UNCHANGED <<config, engVars, docs, chunks, fmtVars, genVars, appVars>>

\* processor.split_documents(docs, use_section_split); the record keeps, beside
\* the result, the sizes the configuration held and the sizes the call used
Split(use_section_split, r) ==
  chunks' = [called |-> TRUE, use_section_split |-> use_section_split,
             strategy |-> r.strategy, chunks |-> r.chunks,
             cfg  |-> [CHUNK_SIZE    |-> config.CHUNK_SIZE,
                       CHUNK_OVERLAP |-> config.CHUNK_OVERLAP],
             used |-> [CHUNK_SIZE    |-> processor.chunk_size,
                       CHUNK_OVERLAP |-> processor.chunk_overlap]]

SplitDocuments(use_section_split) ==
  /\ processor.built
  /\ Split(use_section_split, split_documents(processor, docs, use_section_split))
  /\ UNCHANGED <<config, engVars, processor, docs, fmtVars, genVars, appVars>>

(***************************************************************************)
(* Inputs of the source-formatting specification: retrieved chunks whose   *)
(* content is as long as the preview, shorter, and longer.                 *)
(***************************************************************************)
MaxRetrieved == 2
Longer       == 3

ContentOfLen(n) == [i \in 1..n |-> DigitSeq[(i % 10) + 1]]

ContentLens == {1, PreviewLen, PreviewLen + 1, PreviewLen + Longer}

Metadatas ==
  { [page |-> 1, section |-> <<"1", ".", " ", "A", "b">>, chunk_id |-> 0],
    [page |-> 2, chunk_id |-> 1],
    [section |-> <<"2", ".", " ", "C", "d">>],
    [source |-> SourceName] }

RetrievedChunks ==
  {[content |-> ContentOfLen(n), metadata |-> m, score |-> sc] :
      n \in ContentLens, m \in Metadatas, sc \in {10, 25}}
  \cup {[content |-> ContentOfLen(n), metadata |-> m] :
      n \in {PreviewLen + 1}, m \in Metadatas}

NoSources == [done |-> FALSE, sources |-> <<>>]

\* engine.format_sources(fmtIn)
FormatSources ==
  /\ ~fmtOut.done
  /\ fmtOut' = [done |-> TRUE, sources |-> format_sources(fmtIn)]
  /\ UNCHANGED <<config, engVars, procVars, fmtIn, genVars, appVars>>

(***************************************************************************)
(* Inputs of the extractive-generator specification: contexts made of a    *)
(* few lines of several kinds, then a run of numbered content lines as     *)
(* long as the bullet cap, shorter, and longer, then one closing line.     *)
(***************************************************************************)
MaxHead == 2
Extra   == 1

\* f"[Source: Page {page}]"
Marker(page) == SourceTag \o <<" ">> \o PageWord \o page \o <<"]">>

ContextLineKinds ==
  { Marker(<<"1">>),
    Marker(<<"2">>),
    <<" ">> \o Marker(<<"1", "2">>),     \* indented, two digits
    Marker(<<"?">>),                     \* a chunk without a page
    <<"a">>,
    <<" ", "b", " ">>,                   \* content with spaces around it
    <<>> }                               \* an empty line

FillCounts == {0, MaxBullets - 1, MaxBullets, MaxBullets + Extra}

FillLines(n) == [i \in 1..n |-> <<"l">> \o ToText(i)]

ClosingLines == {<<>>, <<Marker(<<"2">>)>>, <<<<"z">>>>}

Contexts ==
  {Join(<<NL>>, h \o FillLines(n) \o t) :
     h \in SeqsUpTo(ContextLineKinds, MaxHead) \cup {<<>>},
     n \in FillCounts, t \in ClosingLines}

NoSimple == [done |-> FALSE, answer |-> NotFound]

\* engine.generate_simple_answer(question, context)
GenerateSimpleAnswer ==
  /\ ~simple.done
  /\ \E q \in Questions :
       simple' = [done |-> TRUE, answer |-> generate_simple_answer(q, ctx)]
  /\ UNCHANGED <<config, engVars, procVars, fmtVars, ctx, appVars>>

(***************************************************************************)
(* app.py: the Streamlit script. Every interaction of a browser session    *)
(* runs the script from the top with that session's st.session_state; the  *)
(* sessions of one server share the Config class and the disk. A run is    *)
(* two steps, so that another session's run can fall between the sidebar   *)
(* and the question: lines 28-123, then lines 134-158.                     *)
(***************************************************************************)
Sessions == {"s1", "s2"}
MaxQuestions == 1

\* what the last run of the auto-load block (lines 89-123) found and did
NoBoot ==
  [tried |-> FALSE, index |-> "absent", pdf |-> "missing", outcome |-> "none"]

\* a browser session before its first run; pc and question are the position
\* of the run in progress and the question it was submitted with
NoSession ==
  [started |-> FALSE, current_mode |-> "free", vector_store |-> "None",
   qa_engine |-> NoEngine, chat_history |-> <<>>, question_count |-> 0,
   pc |-> "idle", question |-> "None", boot |-> NoBoot]

NoDisk == [index |-> "absent", pdf |-> "missing"]

\* lines 28-37: the keys a new session lacks; current_mode starts as Config.MODE
SessionInit(state, cfg) ==
  IF state.started THEN state
  ELSE [state EXCEPT !.started = TRUE, !.current_mode = cfg.MODE]

\* lines 50-63: a changed mode replaces the engine if an index is loaded
Sidebar(state, new_mode) ==
  IF new_mode # state.current_mode
  THEN [state EXCEPT
          !.current_mode = new_mode,
          !.qa_engine = IF state.vector_store # "None"
                        THEN QAEngine(state.vector_store)
                        ELSE state.qa_engine]
  ELSE state

\* lines 80-85: the Clear Cache button
ClearCache(state) ==
  [state EXCEPT !.vector_store = "None", !.qa_engine = NoEngine,
                !.chat_history = <<>>, !.question_count = 0]

\* lines 28-86. st.rerun() at line 86 starts the script again with the same
\* radio selection and no button pressed, so the second pass through the
\* sidebar changes nothing.
Top(state, cfg, new_mode, clear) ==
  IF clear
  THEN Sidebar(ClearCache(Sidebar(SessionInit(state, cfg), new_mode)), new_mode)
  ELSE Sidebar(SessionInit(state, cfg), new_mode)

\* load_vector_store: FAISS.load_local of the saved index; whatever goes wrong
\* leaves as DocumentProcessingError
load_vector_store(dsk) ==
  IF dsk.index = "ok"
  THEN [raised |-> FALSE, vector_store |-> "handbook"]
  ELSE [raised |-> TRUE,  vector_store |-> "None"]

\* process_pdf: load, split, embed, save; a PDF that cannot be read or gives
\* no text leaves as DocumentProcessingError, with nothing saved
process_pdf(dsk) ==
  IF dsk.pdf = "ok"
  THEN [raised |-> FALSE, vector_store |-> "handbook",
        disk |-> [dsk EXCEPT !.index = "ok"]]
  ELSE [raised |-> TRUE, vector_store |-> "None", disk |-> dsk]

Booted(state, dsk, outcome) ==
  [state EXCEPT !.boot = [tried |-> TRUE, index |-> dsk.index,
                          pdf |-> dsk.pdf, outcome |-> outcome]]

\* line 112, after the index was loaded or rebuilt
WithEngine(state, vector_store) ==
  [state EXCEPT !.vector_store = vector_store,
                !.qa_engine = QAEngine(vector_store)]

\* the auto-load block with the rebuild of lines 100-105 left out: a load
\* failure stops the run
AutoLoadNoRebuild(state, dsk) ==
  IF state.vector_store # "None"
  THEN [state |-> state, disk |-> dsk, stopped |-> FALSE]
  ELSE IF ~load_vector_store(dsk).raised
  THEN [state |-> WithEngine(Booted(state, dsk, "loaded"),
                             load_vector_store(dsk).vector_store),
        disk |-> dsk, stopped |-> FALSE]
  ELSE [state |-> Booted(state, dsk, "stopped"), disk |-> dsk,
        stopped |-> TRUE]

\* lines 89-123: load the saved index; if that fails and handbook.pdf exists,
\* rebuild from it; st.stop() if there is no PDF or the rebuild fails
AutoLoad(state, dsk) ==
  IF state.vector_store # "None"
  THEN [state |-> state, disk |-> dsk, stopped |-> FALSE]
  ELSE IF ~load_vector_store(dsk).raised
  THEN [state |-> WithEngine(Booted(state, dsk, "loaded"),
                             load_vector_store(dsk).vector_store),
        disk |-> dsk, stopped |-> FALSE]
  ELSE IF dsk.pdf = "missing" \/ process_pdf(dsk).raised
  THEN [state |-> Booted(state, dsk, "stopped"), disk |-> dsk,
        stopped |-> TRUE]
  ELSE [state |-> WithEngine(Booted(state, dsk, "rebuilt"),
                             process_pdf(dsk).vector_store),
        disk |-> process_pdf(dsk).disk, stopped |-> FALSE]

\* the run reached the main area (or st.stop()) with r
Ran(s, r, clear, question) ==
  /\ sess' = [sess EXCEPT ![s] =
                [r.state EXCEPT
                   !.pc = IF r.stopped THEN "idle" ELSE "main",
                   !.question = IF r.stopped \/ clear THEN "None" ELSE question]]
  /\ disk' = r.disk

\* the questions counted by the sessions or submitted and not yet answered
Asked ==
  Cardinality(UNION {{<<s, i>> : i \in 1..sess[s].question_count} : s \in Sessions})
    + Cardinality({s \in Sessions : sess[s].question # "None"})

\* One run of the script down to line 123, started by one interaction: the
\* first visit, a radio selection, the Clear Cache button, or Submit with a
\* question. After a run the radio selection is current_mode.
RunScript(s, new_mode, clear, question) ==
  /\ sess[s].pc = "idle"
  /\ ~sess[s].started => (new_mode = "free" /\ ~clear /\ question = "None")
  /\ (sess[s].started /\ (clear \/ question # "None"))
       => new_mode = sess[s].current_mode
  /\ ~(clear /\ question # "None")
  /\ question # "None" => Asked < MaxQuestions
  /\ Ran(s, AutoLoad(Top(sess[s], config, new_mode, clear), disk), clear, question)
  /\ config' = [config EXCEPT !.MODE = new_mode]
  /\ UNCHANGED <<engVars, procVars, fmtVars, genVars>>

\* lines 137-158 with the result r of answer_question: an exception is shown
\* and changes nothing else
Submitted(s, r) ==
  sess' = [sess EXCEPT ![s] =
             IF r.raised
             THEN [sess[s] EXCEPT !.qa_engine = r.engine,
                                  !.pc = "idle", !.question = "None"]
             ELSE [sess[s] EXCEPT
                     !.qa_engine = r.engine,
                     !.question_count = sess[s].question_count + 1,
                     !.chat_history =
                        Append(sess[s].chat_history,
                               [question |-> sess[s].question,
                                answer   |-> r.answer,
                                sources  |-> r.sources]),
                     !.pc = "idle", !.question = "None"]]

\* lines 125-158: the rest of the run
MainArea(s) ==
  /\ sess[s].pc = "main"
  /\ IF sess[s].question = "None"
     THEN sess' = [sess EXCEPT ![s] = [sess[s] EXCEPT !.pc = "idle"]]
     ELSE \E query_raises \in BOOLEAN, reply \in Replies :
            Submitted(s, answer_question(sess[s].qa_engine, config,
                                         sess[s].question, query_raises, reply))
  /\ UNCHANGED <<config, disk, engVars, procVars, fmtVars, genVars>>

\* the saved index is removed, or left damaged by a write that did not finish
DamageIndex(how) ==
  /\ disk.index # how
  /\ disk' = [disk EXCEPT !.index = how]
  /\ UNCHANGED <<config, sess, engVars, procVars, fmtVars, genVars>>

(***************************************************************************)
(* Specifications                                                          *)
(***************************************************************************)
IdleEngine ==
  /\ engine = NoEngine
  /\ calls = 0
  /\ last = NoLast
  /\ clean = FALSE
  /\ gens = [q \in Questions |-> 0]

IdleProcessor ==
  /\ processor = NoProcessor
  /\ docs = <<>>
  /\ chunks = NoChunks

IdleFormat ==
  /\ fmtIn = <<>>
  /\ fmtOut = NoSources
  /\ ctx = <<>>
  /\ simple = NoSimple

IdleApp ==
  /\ disk = NoDisk
  /\ sess = [s \in Sessions |-> NoSession]

\* One engine over the handbook index, used as a library: questions, mode
\* and cache-flag changes, engine replacement.
Init ==
  /\ \E mode \in Modes, key \in {"", "sk"} : config = ConfigClass(mode, key)
  /\ engine = QAEngine("handbook")
  /\ calls = 0
  /\ last = NoLast
  /\ clean = FALSE
  /\ gens = [q \in Questions |-> 0]
  /\ IdleProcessor /\ IdleFormat /\ IdleApp

Next ==
  \/ \E q \in Questions : AnswerQuestion(q)
  \/ \E m \in Modes : SetConfig("MODE", m)
  \/ \E b \in BOOLEAN : SetConfig("ENABLE_CACHE", b)
  \/ NewEngine

Spec == Init /\ [][Next]_vars

\* Chunking as a function of the pages, for a processor built under one of
\* the splitter configurations.
InitChunk ==
  /\ \E c \in SplitterConfigs :
       /\ config = [ConfigClass("free", "") EXCEPT !.CHUNK_SIZE = c.CHUNK_SIZE,
                                                   !.CHUNK_OVERLAP = c.CHUNK_OVERLAP]
       /\ processor = NewSplitter(config)
  /\ docs \in Documents
  /\ chunks = NoChunks
  /\ IdleEngine /\ IdleFormat /\ IdleApp

NextChunk == \E use_section_split \in BOOLEAN : SplitDocuments(use_section_split)

SpecChunk == InitChunk /\ [][NextChunk]_vars

\* format_sources as a function of the retrieved chunks.
InitFormat ==
  /\ config = ConfigClass("free", "")
  /\ fmtIn \in SeqsUpTo(RetrievedChunks, MaxRetrieved) \cup {<<>>}
  /\ fmtOut = NoSources
  /\ ctx = <<>>
  /\ simple = NoSimple
  /\ IdleEngine /\ IdleProcessor /\ IdleApp

NextFormat == FormatSources

SpecFormat == InitFormat /\ [][NextFormat]_vars

\* generate_simple_answer as a function of the context.
InitSimple ==
  /\ config = ConfigClass("free", "")
  /\ ctx \in Contexts
  /\ simple = NoSimple
  /\ fmtIn = <<>>
  /\ fmtOut = NoSources
  /\ IdleEngine /\ IdleProcessor /\ IdleApp

NextSimple == GenerateSimpleAnswer

SpecSimple == InitSimple /\ [][NextSimple]_vars

\* A process started in paid mode with a key that holds an engine, or a
\* processor, and whose configuration is then changed attribute by attribute,
\* at most MaxDrift attributes away from what the class body set.
MaxDrift == 2
MaxConfigCalls == 2

ConfigValues ==
  [MODE            |-> Modes,
   ENABLE_CACHE    |-> BOOLEAN,
   TOP_K           |-> {TOP_K, SmallK},
   CHUNK_SIZE      |-> {CHUNK_SIZE, SmallChunk},
   CHUNK_OVERLAP   |-> {CHUNK_OVERLAP, SmallOverlap},
   LLM_MODEL       |-> {"None", "gpt-4o-mini"},
   LLM_TEMPERATURE |-> {3, 5}]

BaseConfig == ConfigClass("paid", "sk")

Drift(cfg) == Cardinality({f \in DOMAIN ConfigValues : cfg[f] # BaseConfig[f]})

InitConfig ==
  /\ config = BaseConfig
  /\ calls = 0
  /\ last = NoLast
  /\ clean = FALSE
  /\ gens = [q \in Questions |-> 0]
  /\ docs = HandbookPages
  /\ chunks = NoChunks
  /\ \/ engine = QAEngine("handbook") /\ processor = NoProcessor
     \/ engine = NoEngine /\ processor = NewSplitter(config)
  /\ IdleFormat /\ IdleApp

\* Config.<field> = value, within MaxDrift of the class body
Reconfigure(field, value) ==
  /\ SetConfig(field, value)
  /\ Drift(config') <= MaxDrift

\* the engine is asked, or replaced by a new one
AskEngine(q) ==
  /\ calls < MaxConfigCalls
  /\ AnswerQuestion(q)

ReplaceEngine ==
  /\ engine.built
  /\ NewEngine

\* the processor is replaced by a new one
ReplaceProcessor ==
  /\ processor.built
  /\ NewProcessor

NextConfig ==
  \/ \E q \in Questions : AskEngine(q)
  \/ \E f \in DOMAIN ConfigValues : \E v \in ConfigValues[f] : Reconfigure(f, v)
  \/ ReplaceEngine
  \/ ReplaceProcessor
  \/ \E use_section_split \in BOOLEAN : SplitDocuments(use_section_split)

SpecConfig == InitConfig /\ [][NextConfig]_vars

\* The sessions of one server: script runs, and damage to the saved index.
InitApp ==
  /\ \E mode \in Modes : config = ConfigClass(mode, "sk")
  /\ disk \in [index : {"absent", "ok", "corrupt"},
               pdf   : {"missing", "ok", "unreadable"}]
  /\ sess = [s \in Sessions |-> NoSession]
  /\ IdleEngine /\ IdleProcessor /\ IdleFormat

\* the questions typed into the text input
AppQuestions == {"q1"}

NextApp ==
  \/ \E s \in Sessions, new_mode \in Modes, clear \in BOOLEAN,
        question \in AppQuestions \cup {"None"} :
       RunScript(s, new_mode, clear, question)
  \/ \E s \in Sessions : MainArea(s)
  \/ \E how \in {"absent", "corrupt"} : DamageIndex(how)

SpecApp == InitApp /\ [][NextApp]_vars

(***************************************************************************)
(* Properties                                                              *)
(***************************************************************************)
SameOutput(a, b) ==
  /\ a.raised = b.raised
  /\ a.exc = b.exc
  /\ a.answer = b.answer
  /\ a.sources = b.sources

\* the step is a call of answer_question that repeats the question of the call
\* before it, with caching enabled in both and no mode change or cache clear
\* between them
RepeatedCall ==
  /\ calls' = calls + 1
  /\ calls > 0
  /\ clean
  /\ last'.trace.question = last.trace.question
  /\ last.trace.cfg.ENABLE_CACHE
  /\ last'.trace.cfg.ENABLE_CACHE

AtMostOneGeneration == \A q \in Questions : gens[q] <= 1

\* C1 as stated: a repeated call returns the output of the call before it,
\* whatever that call did, and the generator runs at most once per question.
C1_RepeatIdentical ==
  /\ []AtMostOneGeneration
  /\ [][RepeatedCall => SameOutput(last, last')]_vars

\* C1 amended: a repeated call returns the output of the call before it when
\* that call had a result to cache (it retrieved at least one chunk, or was
\* itself answered from the cache); the generator runs at most once per
\* question on one engine while caching is enabled.
C1_RepeatIdenticalWhenCached ==
  /\ []AtMostOneGeneration
  /\ [][(RepeatedCall /\ (last.trace.retrieved > 0 \/ last.trace.cache_hit))
          => (SameOutput(last, last') /\ last'.trace.cache_hit)]_vars

\* a question was answered by the provider, then asked again and answered from
\* the cache
C1_Witness ==
  /\ calls >= 2
  /\ clean
  /\ last.trace.cache_hit
  /\ last.answer.kind = "llm"
  /\ gens[last.trace.question] = 1

\* C2 as stated: a call in paid mode whose provider call fails ends with
\* LLMAPIError reaching the caller.
C2_ProviderFailureRaises ==
  (calls > 0 /\ last.trace.cfg.MODE = "paid" /\ last.trace.llm_failed)
    => (last.raised /\ last.exc = "LLMAPIError")

\* C3: a call made while the mode is free does not run the OpenAI generator,
\* does not reach llm.invoke and leaves the engine's client as it was.
C3_FreeModeNeverCallsProvider ==
  [][(calls' = calls + 1 /\ config.MODE = "free")
       => /\ last'.trace.generator # "openai"
          /\ ~last'.trace.llm_invoked
          /\ engine'.llm = engine.llm]_vars

\* a question answered extractively on an engine that had built its client in
\* an earlier paid-mode call
C3_Witness ==
  /\ calls >= 2
  /\ engine.llm.created
  /\ last.trace.cfg.MODE = "free"
  /\ last.trace.generator = "simple"
  /\ last.answer.kind = "simple"

\* C4: a call whose retrieval yields no chunk returns the not-found answer
\* with no sources, runs no generator and leaves the cache as it was, without
\* an entry for the question if the cache was consulted.
C4_EmptyRetrievalNotCached ==
  [][(calls' = calls + 1 /\ ~last'.trace.cache_hit /\ last'.trace.retrieved = 0)
       => /\ ~last'.raised
          /\ last'.answer = NotFound
          /\ last'.sources = <<>>
          /\ last'.trace.generator = "none"
          /\ engine'.cache = engine.cache
          /\ (config.ENABLE_CACHE
                => last'.trace.question \notin DOMAIN engine'.cache)]_vars

\* an empty retrieval with caching enabled, on an engine whose cache holds
\* another question
C4_Witness ==
  /\ calls >= 2
  /\ ~last.trace.cache_hit
  /\ last.trace.retrieved = 0
  /\ last.trace.cfg.ENABLE_CACHE
  /\ DOMAIN engine.cache # {}
  /\ last.trace.question \notin DOMAIN engine.cache

\* C5: when the index query raises, nothing is raised to the caller and the
\* call returns the not-found answer with no sources.
C5_RetrievalErrorDegrades ==
  (calls > 0 /\ last.query_raised)
    => (~last.raised /\ last.answer = NotFound /\ last.sources = <<>>)

\* the index query raised in paid mode
C5_Witness ==
  /\ calls > 0
  /\ last.query_raised
  /\ last.trace.cfg.MODE = "paid"
  /\ last.answer = NotFound

\* a line that begins with a numeric ordinal, a period, a space and a
\* capitalized title (a capital and at least one more character)
IsHeadingLine(line) ==
  /\ SkipIn(line, 1, Digits) > 1
  /\ SkipIn(line, 1, Digits) + 3 <= Len(line)
  /\ line[SkipIn(line, 1, Digits)] = "."
  /\ line[SkipIn(line, 1, Digits) + 1] = " "
  /\ IsUpper(line[SkipIn(line, 1, Digits) + 2])

RECURSIVE HeadingsAmong(_)
HeadingsAmong(lines) ==
  IF lines = <<>> THEN <<>>
  ELSE IF IsHeadingLine(Head(lines))
  THEN <<Head(lines)>> \o HeadingsAmong(Tail(lines))
  ELSE HeadingsAmong(Tail(lines))

HeadingLines(text) == HeadingsAmong(SplitLines(text))

SectionPerHeading(result, headings) ==
  IF headings = <<>>
  THEN result.strategy = "generic"
  ELSE /\ result.strategy = "section"
       /\ Len(result.chunks) = Len(headings)
       /\ \A i \in 1..Len(headings) :
            /\ StartsWith(result.chunks[i].content, headings[i])
            /\ result.chunks[i].metadata.section = headings[i]

\* C7 as stated: with section splitting on, the pages give one chunk per
\* heading line, in order, each starting with its heading line and carrying it
\* as its section; with no heading line the generic splitter is used.
C7_OneChunkPerHeadingLine ==
  (chunks.called /\ chunks.use_section_split)
    => SectionPerHeading(chunks, HeadingLines(FullText(docs)))

\* C8 as stated: the chunk_id of the chunks of one split_documents call is
\* strictly increasing in output order.
C8_ChunkIdsIncrease ==
  chunks.called
    => \A i, j \in 1..Len(chunks.chunks) :
         i < j => chunks.chunks[i].metadata.chunk_id
                    < chunks.chunks[j].metadata.chunk_id

\* the preview of a content: the content itself up to 200 characters,
\* otherwise its first 200 characters and the ellipsis
IsPreviewOf(preview, content) ==
  IF Len(content) <= PreviewLen
  THEN preview = content
  ELSE /\ Len(preview) = PreviewLen + Len(Ellipsis)
       /\ \A i \in 1..PreviewLen : preview[i] = content[i]
       /\ \A i \in 1..Len(Ellipsis) : preview[PreviewLen + i] = Ellipsis[i]

IsSourceOf(source, chunk) ==
  /\ ("score" \in DOMAIN chunk => source.score = chunk.score)
  /\ IF "page" \in DOMAIN chunk.metadata
     THEN source.page = chunk.metadata.page
     ELSE source.page = "?"
  /\ IF "section" \in DOMAIN chunk.metadata
     THEN source.section = chunk.metadata.section
     ELSE source.section = <<>>
  /\ IsPreviewOf(source.content, chunk.content)

\* C9: format_sources gives one source per chunk, in order, with the chunk's
\* score, page (or "?") and section, and the preview of its content.
C9_OneSourcePerChunk ==
  fmtOut.done
    => /\ Len(fmtOut.sources) = Len(fmtIn)
       /\ \A i \in 1..Len(fmtIn) : IsSourceOf(fmtOut.sources[i], fmtIn[i])

\* two chunks formatted: one of exactly 200 characters, one longer and
\* without a page
C9_Witness ==
  /\ fmtOut.done
  /\ Len(fmtIn) = 2
  /\ Len(fmtIn[1].content) = PreviewLen
  /\ fmtOut.sources[1].content = fmtIn[1].content
  /\ Len(fmtIn[2].content) > PreviewLen
  /\ Len(fmtOut.sources[2].content) = PreviewLen + 3
  /\ "page" \notin DOMAIN fmtIn[2].metadata
  /\ fmtOut.sources[2].page = "?"

\* C6 as stated: every value a call uses is the value the configuration holds
\* at the time of the call: the chunk size and overlap of a split_documents
\* call, the model and temperature of a provider call.
C6_ReadAtCallTime ==
  /\ chunks.called => chunks.used = chunks.cfg
  /\ (calls > 0 /\ last.trace.llm_invoked)
       => /\ last.trace.client.model = last.trace.cfg.LLM_MODEL
          /\ last.trace.client.temperature = last.trace.cfg.LLM_TEMPERATURE

\* C10 as stated: after a run whose load of the saved index failed, the index
\* was rebuilt and the session has an engine.
C10_LoadFailureNeverFatal ==
  \A s \in Sessions :
    (sess[s].boot.tried /\ sess[s].boot.index # "ok")
      => (sess[s].boot.outcome = "rebuilt" /\ sess[s].qa_engine.built)

\* C10 amended: after a run whose load of the saved index failed (absent or
\* corrupt), if handbook.pdf was there and readable the index was rebuilt from
\* it and the session has an index and an engine on it; otherwise the run
\* stopped and the session has neither.
C10_LoadFailureRebuilds ==
  \A s \in Sessions :
    (sess[s].boot.tried /\ sess[s].boot.index # "ok")
      => IF sess[s].boot.pdf = "ok"
         THEN /\ sess[s].boot.outcome = "rebuilt"
              /\ sess[s].vector_store = "handbook"
              /\ sess[s].qa_engine.built
              /\ sess[s].qa_engine.vector_store = "handbook"
         ELSE /\ sess[s].boot.outcome = "stopped"
              /\ sess[s].vector_store = "None"
              /\ ~sess[s].qa_engine.built

\* a session found a corrupt index, rebuilt it and has an engine
C10_Witness ==
  \E s \in Sessions :
    /\ sess[s].boot.tried
    /\ sess[s].boot.index = "corrupt"
    /\ sess[s].boot.outcome = "rebuilt"
    /\ sess[s].qa_engine.built
    /\ disk.index = "ok"

\* the lines of the context
ContextLines == SplitLines(ctx)

\* a source line that carries a page number
IsPageMarker(line) ==
  StartsWith(Strip(line), SourceTag) /\ PageOfMarker(Strip(line)) # <<>>

\* a non-empty line that is not a source line
IsContentLine(line) ==
  Strip(line) # <<>> /\ ~StartsWith(Strip(line), SourceTag)

\* the positions of the content lines that follow a page marker
Followers(lines) ==
  {i \in 1..Len(lines) :
     IsContentLine(lines[i]) /\ \E j \in 1..(i - 1) : IsPageMarker(lines[j])}

\* the k-th smallest member of S
Nth(S, k) == CHOOSE i \in S : Cardinality({j \in S : j < i}) = k - 1

\* the page of the most recent page marker before position i
PageBefore(lines, i) ==
  PageOfMarker(Strip(lines[MaxOf({j \in 1..(i - 1) : IsPageMarker(lines[j])})]))

\* the bullets are attributed to page: each comes from a line whose most
\* recent page marker names that page
AttributedTo(lines, followers, bullets, page) ==
  \A k \in 1..Len(bullets) : PageBefore(lines, Nth(followers, k)) = page

\* C11 as stated: every bullet of the extractive answer is attributed to the
\* page of the most recent page marker before its line in the context. The
\* answer names one page, in its header, for all its bullets.
C11_BulletsCarryTheirPage ==
  (simple.done /\ simple.answer.kind = "simple")
    => AttributedTo(ContextLines, Followers(ContextLines),
                    simple.answer.lines, simple.answer.page)

\* the bullets are the first MaxBullets lines at the positions followers
FirstOf(lines, followers, answer) ==
  IF followers = {}
  THEN answer = NotFound
  ELSE /\ answer.kind = "simple"
       /\ Len(answer.lines) = Min2(MaxBullets, Cardinality(followers))
       /\ \A k \in 1..Len(answer.lines) :
            answer.lines[k] = Bullet \o Strip(lines[Nth(followers, k)])

\* C12: the answer is determined by the context: with no content line after
\* a page marker it is the not-found message; otherwise its bullets are the
\* first 15 (or all, if fewer) content lines that follow a page marker, in
\* order.
C12_FirstFifteenAfterMarker ==
  simple.done => FirstOf(ContextLines, Followers(ContextLines), simple.answer)

\* an answer cut to 15 bullets from a context with more content lines, whose
\* first line is not a marker
C12_Witness ==
  /\ simple.done
  /\ Cardinality(Followers(ContextLines)) > MaxBullets
  /\ Len(simple.answer.lines) = MaxBullets
  /\ ~IsPageMarker(ContextLines[1])

\* C13 as stated: after a call that met a provider failure the cache holds no
\* entry for its question.
C13_FailureNotMemoized ==
  (calls > 0 /\ last.trace.llm_failed)
    => last.trace.question \notin DOMAIN engine.cache

\* an answer a generator produced is of the kind the generator of the mode
\* gives: extractive bullets in free mode, the provider's text or its error
\* text in paid mode
KindOfMode(answer, mode) ==
  /\ answer.kind = "simple" => mode = "free"
  /\ answer.kind \in {"llm", "error"} => mode = "paid"

\* C14 as stated: every answer returned, cached or not, is of the generator
\* of the mode in force at the call.
C14_AnswerFromModeInForce ==
  calls > 0 => KindOfMode(last.answer, last.trace.cfg.MODE)

\* C14 amended: a call that misses the cache and retrieves something is
\* answered by the generator of the mode in force at the call; a call that
\* hits the cache returns the stored answer and sources whatever the mode; a
\* new engine starts with an empty cache.
C14_MissUsesModeInForce ==
  [][/\ (calls' = calls + 1 /\ ~last'.trace.cache_hit /\ last'.trace.retrieved > 0)
          => /\ last'.trace.generator
                  = (IF config.MODE = "free" THEN "simple" ELSE "openai")
             /\ KindOfMode(last'.answer, config.MODE)
     /\ (calls' = calls + 1 /\ last'.trace.cache_hit)
          => /\ last'.answer = engine.cache[last'.trace.question].answer
             /\ last'.sources = engine.cache[last'.trace.question].sources
     /\ (calls' = calls /\ engine' # engine) => DOMAIN engine'.cache = {}]_vars

\* a question answered extractively, the mode changed to paid, the question
\* asked again and answered from the cache with the extractive answer
C14_Witness ==
  /\ calls >= 2
  /\ last.trace.cache_hit
  /\ last.trace.cfg.MODE = "paid"
  /\ last.answer.kind = "simple"

\* C15 as stated: a question a session submitted is answered in the mode that
\* session has selected, whatever the other session does in the meantime.
C15_AnsweredInSelectedMode ==
  [][\A s \in Sessions :
       (sess[s].pc = "main"
          /\ sess'[s].question_count = sess[s].question_count + 1)
         => KindOfMode(sess'[s].chat_history[Len(sess'[s].chat_history)].answer,
                       sess[s].current_mode)]_vars

====
